---- MODULE Spec2Model ----
(***************************************************************************)
(* AlbumHub: the local store (database/db_manager.py), the import tab's   *)
(* background worker and UI poller (gui/import_tab.py) and the            *)
(* controller's shutdown sequence (AlbumHubMain.py) under Spec; the       *)
(* ranker tab's merge-sort tournament (gui/ranker_tab.py) under            *)
(* RankerSpec; the analytics tab and report discovery                      *)
(* (gui/analytics_tab.py, analytics/) under AnalyticsSpec; the Elo engine  *)
(* (ranking/ranking_system.py) under EloSpec; the cell cleaner             *)
(* (processing/data_cleaner.py) under CleanerSpec; the decade filter of   *)
(* the reports (analytics/) under DecadeSpec; the browser tab's artist    *)
(* filter (gui/browser_tab.py) under BrowserSpec.                          *)
(*                                                                         *)
(* Text cells are sequences of one-character strings so that strip() and  *)
(* the CSV round trip are computed, not assumed.  Python None / SQL NULL  *)
(* is the distinguished value None.                                        *)
(***************************************************************************)
EXTENDS Integers, Sequences, FiniteSets, TLC

\* ------------------------------------------------------------------ bounds
MaxRuns == 2          \* worker launches over the whole session
MaxRecords == 2       \* source records loaded over the whole session
MaxTracks == 1        \* tracks of one Discogs release
MaxThreads == 2       \* thread objects that can exist side by side
MaxReadFails == 1     \* unread "Failed to read file" entries in the queue
MaxAlbums == 5        \* rows a tournament query returns
MaxQueried == 6       \* rows all tournament queries of a session return
MaxOptions == 2       \* distinct values a filter query finds in the table
MaxRows == 2          \* rows a report's fetch_data returns
MaxPending == 2       \* _draw_chart callbacks waiting in the event loop
MaxRanked == 3        \* albums handed to RankingSystem.initialize
MaxResults == 3       \* record_result calls over the whole session
MaxGap == 300         \* rating difference the fixed-point power covers
MaxLen == 5           \* characters of a cell handed to the cleaner
MaxCleanings == 2     \* times the cleaner is applied to one cell
MaxDates == 2         \* albums rows a report's fetch_data reads
MaxArtistLen == 3     \* characters of an Artist cell the browser reads
MaxBrowsed == 2       \* albums rows the browser tab reads

\* ------------------------------------------------------------- text cells
None == <<"None">>
NullId == 0
Whitespace == {" "}

RECURSIVE LStrip(_)
LStrip(s) == IF s # <<>> /\ Head(s) \in Whitespace THEN LStrip(Tail(s)) ELSE s

RECURSIVE RStrip(_)
RStrip(s) ==
    IF s # <<>> /\ s[Len(s)] \in Whitespace
    THEN RStrip(SubSeq(s, 1, Len(s) - 1))
    ELSE s

\* str.strip()
Strip(s) == RStrip(LStrip(s))

\* album.get(key, '') or ''
OrEmpty_KeepsNone(v) == v
OrEmpty(v) == IF v = None \/ v = <<>> THEN <<>> ELSE v

\* df.to_csv writes NULL as an empty cell
FormatCell(v) == IF v = None THEN <<>> ELSE v

\* pd.read_csv reads an empty cell as NaN, which to_sql stores as NULL
ParseCell(s) == IF s = <<>> THEN None ELSE s

\* ------------------------------------------------------------------ inputs
\* Cleaned source records (DataProcessor.load_albums): the source may or may
\* not carry DiscogsID / TracklistDurations columns of its own.
SourceRecords ==
    { [Artist |-> <<"a">>, Title |-> <<"t">>, DiscogsID |-> None,
       TracklistDurations |-> <<>>],
      [Artist |-> <<"c">>, Title |-> <<"t">>, DiscogsID |-> <<"9", " ">>,
       TracklistDurations |-> <<"x">>],
      [Artist |-> <<"b">>, Title |-> <<>>, DiscogsID |-> <<"5">>,
       TracklistDurations |-> <<>>] }

RecordLists == UNION { [1..n -> SourceRecords] : n \in 0..MaxRecords }

\* a selected input file: whether open() succeeds, whether load_albums
\* accepts the extension, and the cleaned records it holds
Files ==
    { [readable |-> FALSE, supported |-> TRUE, records |-> <<>>],
      [readable |-> TRUE, supported |-> FALSE, records |-> <<>>] }
    \cup { [readable |-> TRUE, supported |-> TRUE, records |-> r] :
           r \in RecordLists }

\* release ids the catalog service may answer with, already through str()
ReleaseIds == { <<"7">> }

\* CSV files that import_csv_data may be pointed at by a database-update
\* event (rows as written in the file)
ForeignCsvs ==
    { <<[id |-> 1, Artist |-> <<"z">>, Title |-> <<"t">>, DiscogsID |-> <<>>]>> }

\* ------------------------------------------------------------------- state
VARIABLES
    albums,            \* rows of the albums table, in rowid order
    idIsPK,            \* albums.id is still INTEGER PRIMARY KEY AUTOINCREMENT
    tracklist,         \* rows of the tracklist table
    connOpen,          \* DatabaseManager.conn is an open connection
    csvFile,           \* enriched_albums.csv on disk
    worker,            \* per launched thread: position and locals
    processing_thread, \* ImportTab.processing_thread (0 = None)
    stop_event,        \* ImportTab.stop_event
    button,            \* process_button['state']
    queue,             \* ImportTab.processing_queue
    log,               \* log_text content, one entry per line
    uiPc,              \* what the UI thread is executing
    pollScheduled,     \* root.after(100, check_processing_queue) pending
    launches,          \* worker threads launched so far
    loaded,            \* source records handed to workers so far
    posted,            \* history: entries put on the current queue object
    savedThisRun,      \* history: (Artist, Title) rows the latest worker saved
    shutdownLog,       \* history: steps shutdown() has executed
    stopIdx,           \* history: record in flight when stop was requested
    selected_tab,      \* notebook.select()
    start_button,      \* RankerTab.start_button['state']
    save_button,       \* RankerTab.save_button['state']
    progress_bar,      \* RankerTab.progress_bar: value and maximum
    comparison_frame,  \* RankerTab.comparison_frame: hidden or packed
    sort_gen,          \* RankerTab.sort_gen: the merge-sort generator
    current_match,     \* RankerTab.current_match (<<>> = None)
    comparisons_done,  \* RankerTab.comparisons_done
    total_comparisons, \* RankerTab.total_comparisons
    sorted_final,      \* RankerTab.sorted_final
    ranker_dialog,     \* what the latest ranker handler put on screen
    queried,           \* history: rows the tournament queries have returned
    analysis_type,     \* AnalyticsTab.analysis_type: the report selected
    filter_type,       \* AnalyticsTab.filter_type
    filter_value,      \* AnalyticsTab.filter_value
    filter_combo,      \* AnalyticsTab.filter_combo: state and option list
    chart_frame,       \* AnalyticsTab.chart_frame: what it displays
    current_analysis,  \* AnalyticsTab.current_analysis
    draw_pending,      \* root.after(100, _draw_chart) callbacks pending
    callback_exc,      \* exception that left the latest analytics callback
    recomputed,        \* the latest analytics callback rebuilt the options
    fig_data,          \* the fetch_data call behind current_analysis.fig
    exported,          \* the latest export: what the two files hold
    rankings,          \* RankingSystem.rankings: rating by album id
    comparisons,       \* RankingSystem.comparisons
    results,           \* history: record_result calls so far
    cell_value,        \* the value handed to clean_imported_data
    cleaned,           \* history: results of the successive cleanings
    release_dates,     \* Release_Date of the albums rows a report reads
    fetched,           \* the latest fetch_data call and what it selected
    artist_column,     \* Artist of the albums rows the browser tab reads
    artist_opts,       \* labels of the browser's artist menu
    artist_var,        \* BrowserTab.artist_var
    tree               \* rows the browser's grid shows

importVars == << albums, idIsPK, tracklist, connOpen, csvFile, worker,
                 processing_thread, stop_event, button, queue, log, uiPc,
                 pollScheduled, launches, loaded, posted, savedThisRun,
                 shutdownLog, stopIdx >>

rankerVars == << selected_tab, start_button, save_button, progress_bar,
                 comparison_frame, sort_gen, current_match, comparisons_done,
                 total_comparisons, sorted_final, ranker_dialog, queried >>

analyticsVars == << analysis_type, filter_type, filter_value, filter_combo,
                    chart_frame, current_analysis, draw_pending, callback_exc,
                    recomputed, fig_data, exported >>

eloVars == << rankings, comparisons, results >>

\* state of the tabs other than the import tab, and of the ranking engine
cleanerVars == << cell_value, cleaned >>

\* state of the components that are pure functions of their input
decadeVars == << release_dates, fetched >>

browserVars == << artist_column, artist_opts, artist_var, tree >>

pureVars == << cleanerVars, decadeVars, browserVars >>

\* the program state outside the pure components
programVars == << importVars, rankerVars, analyticsVars, eloVars >>

tabVars == << rankerVars, analyticsVars, eloVars, pureVars >>

\* what the ranker tab's handlers never touch
nonRankerVars == << importVars, analyticsVars, eloVars, pureVars >>

\* what the analytics tab's handlers never touch
nonAnalyticsVars == << importVars, rankerVars, eloVars, pureVars >>

\* what the ranking engine never touches
nonEloVars == << importVars, rankerVars, analyticsVars, pureVars >>

vars == << importVars, tabVars >>

dbVars == << albums, idIsPK, tracklist, connOpen, csvFile >>
histVars == << launches, loaded, savedThisRun, shutdownLog, stopIdx >>

Workers == 1..MaxThreads

NoWorker ==
    [pc |-> "none", idx |-> 0, recs |-> <<>>, supported |-> TRUE,
     enriched |-> [DiscogsID |-> None, nTracks |-> 0, malformed |-> FALSE],
     album_id |-> 0]

Entry(kind, txt, idx) == [kind |-> kind, txt |-> txt, idx |-> idx]

\* threading.Thread.is_alive()
IsAlive(w) == w # 0 /\ worker[w].pc \notin {"none", "crashed"}

\* a generator that was never created (sort_gen = None)
NoGen == [state |-> "none", items |-> <<>>, sent |-> <<>>]

\* the attribute sorted_final does not exist before the first result
NoOrdering == [kind |-> "unset", items |-> <<>>]

\* RankerTab.__init__ and setup_ranker_tab, which ends in reset_ranking_state
RankerInit ==
    /\ selected_tab = "import"
    /\ start_button = "normal"
    /\ save_button = "disabled"
    /\ progress_bar = [value |-> 0, maximum |-> 100]
    /\ comparison_frame = "hidden"
    /\ sort_gen = NoGen
    /\ current_match = <<>>
    /\ comparisons_done = 0
    /\ total_comparisons = 0
    /\ sorted_final = NoOrdering
    /\ ranker_dialog = "none"
    /\ queried = 0

\* texts a filter holds: 'All', the empty text of a fresh StringVar, or
\* (k >= 1) the k-th distinct value the filter query found in the table
AllText == 0
EmptyText == -1

\* the discovered report classes, by name (ANALYTICS_CLASSES is filled below)
FirstReport == "AlbumsCount"

\* AnalyticsTab.__init__, setup_analytics_tab and _setup_controls: the first
\* report name is preselected, the filter combo is disabled and empty, no
\* option list has been computed and nothing is drawn
\* fetch_data() called without keywords; a call with one keyword is written
\* [type |-> keyword, value |-> its value]
NoKeywords == [type |-> "", value |-> AllText]

\* AnalyticsBase.__init__: self.fig = None
NoFig == [type |-> "none", value |-> AllText]

\* nothing has been exported
NotExported == [dialog |-> "none", png |-> NoFig, txt |-> NoFig]

AnalyticsInit ==
    /\ analysis_type = FirstReport
    /\ filter_type = "all"
    /\ filter_value = EmptyText
    /\ filter_combo = [state |-> "disabled", values |-> <<>>]
    /\ chart_frame = [message |-> "none", chart |-> "none",
                      insights |-> [kind |-> "none", Records |-> 0]]
    /\ current_analysis = "None"
    /\ draw_pending = 0
    /\ callback_exc = "none"
    /\ recomputed = FALSE
    /\ fig_data = NoFig
    /\ exported = NotExported

\* RankingSystem.__init__
EloInit ==
    /\ rankings = <<>>
    /\ comparisons = <<>>
    /\ results = 0

\* 'All', the label both menus start with
BrowserAll == <<"A", "l", "l">>

\* the browser tab has not been set up
BrowserIdle ==
    /\ artist_column = <<>>
    /\ artist_opts = {}
    /\ artist_var = BrowserAll
    /\ tree = {}

\* no cell has been handed to the cleaner
CleanerIdle ==
    /\ cell_value = None
    /\ cleaned = <<>>

\* DatabaseManager.__init__ and ImportTab.__init__ / setup_import_tab
ImportInit ==
    /\ albums = <<>>
    /\ idIsPK = TRUE
    /\ tracklist = <<>>
    /\ connOpen = TRUE
    /\ csvFile = [exists |-> FALSE, rows |-> <<>>]
    /\ worker = [w \in Workers |-> NoWorker]
    /\ processing_thread = 0
    /\ stop_event = FALSE
    /\ button = "normal"
    /\ queue = <<>>
    /\ log = <<>>
    /\ uiPc = "idle"
    /\ pollScheduled = FALSE
    /\ launches = 0
    /\ loaded = 0
    /\ posted = <<>>
    /\ savedThisRun = {}
    /\ shutdownLog = <<>>
    /\ stopIdx = -1

\* no report has fetched anything
NotFetched == [report |-> "none", decade |-> <<>>, kind |-> "unset",
               rows |-> {}]

DecadeIdle ==
    /\ release_dates = <<>>
    /\ fetched = NotFetched

\* construction of the program: every component but the pure ones
ProgramInit ==
    /\ RankerInit
    /\ AnalyticsInit
    /\ EloInit
    /\ ImportInit

Init ==
    /\ ProgramInit
    /\ CleanerIdle
    /\ DecadeIdle
    /\ BrowserIdle

\* ------------------------------------------------- DatabaseManager (store)
\* INSERT INTO albums: the generated id while the column is the
\* autoincrementing primary key, NULL once to_sql has replaced the table
NewAlbumId == IF idIsPK THEN Len(albums) + 1 ELSE NullId

\* cursor.lastrowid after the INSERT: the rowid of the new row
LastRowId == Len(albums) + 1

\* rows of df.to_csv(SELECT * FROM albums)
ExportRows(rows) ==
    [i \in 1..Len(rows) |->
        [id |-> rows[i].id,
         Artist |-> FormatCell(rows[i].Artist),
         Title |-> FormatCell(rows[i].Title),
         DiscogsID |-> FormatCell(rows[i].DiscogsID)]]

\* rows of pd.read_csv(file) as to_sql(if_exists='replace') stores them
ImportRows(rows) ==
    [i \in 1..Len(rows) |->
        [id |-> rows[i].id,
         Artist |-> ParseCell(rows[i].Artist),
         Title |-> ParseCell(rows[i].Title),
         DiscogsID |-> ParseCell(rows[i].DiscogsID)]]

\* PRAGMA foreign_keys is never switched on for the connection, so the
\* ON DELETE CASCADE of tracklist.album_id is not enforced
ForeignKeysOn == FALSE

\* tracklist after the albums table has been dropped and rebuilt
TracksAfterReplace(tracks) == IF ForeignKeysOn THEN <<>> ELSE tracks

\* SELECT 1 FROM albums WHERE artist = ? AND title = ? LIMIT 1
AlreadyInDb(artist, title) ==
    \E i \in 1..Len(albums) :
        /\ albums[i].Artist # None /\ albums[i].Artist = artist
        /\ albums[i].Title # None /\ albums[i].Title = title

\* ------------------------------------------------------ the import worker
Put(e) ==
    /\ queue' = Append(queue, e)
    /\ posted' = Append(posted, e)

PutTwo(e1, e2) ==
    /\ queue' = queue \o <<e1, e2>>
    /\ posted' = posted \o <<e1, e2>>

\* `continue` / falling off the loop body: next record or leave the loop
Advance(w) ==
    IF worker[w].idx < Len(worker[w].recs)
    THEN [worker EXCEPT ![w].pc = "check", ![w].idx = @ + 1]
    ELSE [worker EXCEPT ![w].pc = "end"]

Rec(w) == worker[w].recs[worker[w].idx]

\* albums = self.app.processor.load_albums(filepath)
WLoad(w) ==
    /\ worker[w].pc = "load"
    /\ IF ~worker[w].supported
       THEN /\ Put(Entry("error", "load", 0))
            /\ worker' = [worker EXCEPT ![w].pc = "exit"]
       ELSE /\ worker' = [worker EXCEPT
                   ![w].pc = IF worker[w].recs = <<>> THEN "end" ELSE "check",
                   ![w].idx = IF worker[w].recs = <<>> THEN 0 ELSE 1]
            /\ UNCHANGED << queue, posted >>
    /\ UNCHANGED << dbVars, processing_thread, stop_event, button, log, uiPc,
                    pollScheduled, histVars >>
    /\ UNCHANGED tabVars

\* if self.stop_event.is_set(): put(("error", "Stopped by user")); return
WCheckStop(w) ==
    /\ worker[w].pc = "check"
    /\ IF stop_event
       THEN /\ Put(Entry("error", "stopped", worker[w].idx))
            /\ worker' = [worker EXCEPT ![w].pc = "exit"]
       ELSE /\ worker' = [worker EXCEPT ![w].pc = "select"]
            /\ UNCHANGED << queue, posted >>
    /\ UNCHANGED << dbVars, processing_thread, stop_event, button, log, uiPc,
                    pollScheduled, histVars >>
    /\ UNCHANGED tabVars

\* the skip query; it is outside the try block, so a closed connection
\* ends the thread with an uncaught sqlite3.ProgrammingError
WSelect(w) ==
    /\ worker[w].pc = "select"
    /\ IF ~connOpen
       THEN /\ worker' = [worker EXCEPT ![w] = [NoWorker EXCEPT !.pc = "crashed"]]
            /\ UNCHANGED << queue, posted >>
       ELSE IF AlreadyInDb(Strip(Rec(w).Artist), Strip(Rec(w).Title))
       THEN /\ Put(Entry("message", "skip", worker[w].idx))
            /\ worker' = Advance(w)
       ELSE /\ worker' = [worker EXCEPT ![w].pc = "enrich"]
            /\ UNCHANGED << queue, posted >>
    /\ UNCHANGED << dbVars, processing_thread, stop_event, button, log, uiPc,
                    pollScheduled, histVars >>
    /\ UNCHANGED tabVars

\* enriched = self.discogs.enrich_album(album): either a release is found and
\* its details overwrite the record, or the record comes back unchanged and
\* the client logs that through log_message
WEnrich(w) ==
    /\ worker[w].pc = "enrich"
    /\ \/ \E rid \in ReleaseIds, n \in 1..MaxTracks :
            /\ worker' = [worker EXCEPT ![w].pc = "save",
                   ![w].enriched = [DiscogsID |-> rid, nTracks |-> n,
                                    malformed |-> FALSE]]
            /\ UNCHANGED << queue, posted >>
       \/ /\ worker' = [worker EXCEPT ![w].pc = "save",
                  ![w].enriched = [DiscogsID |-> Rec(w).DiscogsID,
                                   nTracks |-> 0,
                                   malformed |-> Rec(w).TracklistDurations # <<>>]]
          /\ PutTwo(Entry("message", "nofetch", worker[w].idx),
                    Entry("message", "notfound", worker[w].idx))
    /\ UNCHANGED << dbVars, processing_thread, stop_event, button, log, uiPc,
                    pollScheduled, histVars >>
    /\ UNCHANGED tabVars

\* save_album up to the first commit: the admission test, the reconnect and
\* the INSERT of the album row
WSaveAlbum(w) ==
    /\ worker[w].pc = "save"
    /\ LET discogs_id == Strip(OrEmpty(worker[w].enriched.DiscogsID)) IN
       IF discogs_id = <<>>
       THEN /\ worker' = [worker EXCEPT ![w].pc = "post"]
            /\ UNCHANGED << albums, connOpen, savedThisRun >>
       ELSE /\ connOpen' = TRUE
            /\ albums' = Append(albums,
                   [id |-> NewAlbumId,
                    Artist |-> Strip(Rec(w).Artist),
                    Title |-> Rec(w).Title,
                    DiscogsID |-> discogs_id])
            /\ worker' = [worker EXCEPT ![w].pc = "saveTracks",
                                        ![w].album_id = LastRowId]
            /\ savedThisRun' = savedThisRun \cup
                   {<<Strip(Rec(w).Artist), Rec(w).Title>>}
    /\ UNCHANGED << idIsPK, tracklist, csvFile, processing_thread, stop_event,
                    button, queue, log, uiPc, pollScheduled, launches, loaded,
                    posted, shutdownLog, stopIdx >>
    /\ UNCHANGED tabVars

\* the worker's except clause after it has posted: sleep, then `continue`
AfterFailure_Return(w) == [worker EXCEPT ![w].pc = "exit"]
AfterFailure(w) == Advance(w)

\* save_album's track loop and second commit; a TracklistDurations value that
\* is not a list of track mappings raises at its first element, which the
\* worker's except clause reports as a message and an error entry
WSaveTracks(w) ==
    /\ worker[w].pc = "saveTracks"
    /\ IF worker[w].enriched.malformed
       THEN /\ PutTwo(Entry("message", "fail", worker[w].idx),
                      Entry("error", "fail", worker[w].idx))
            /\ worker' = AfterFailure(w)
            /\ UNCHANGED tracklist
       ELSE /\ tracklist' = tracklist \o
                   [k \in 1..worker[w].enriched.nTracks |->
                       [album_id |-> worker[w].album_id, track_number |-> k]]
            /\ worker' = [worker EXCEPT ![w].pc = "post"]
            /\ UNCHANGED << queue, posted >>
    /\ UNCHANGED << albums, idIsPK, connOpen, csvFile, processing_thread,
                    stop_event, button, log, uiPc, pollScheduled, histVars >>
    /\ UNCHANGED tabVars

\* the progress message after the throttle sleep
WPost(w) ==
    /\ worker[w].pc = "post"
    /\ Put(Entry("message", "ok", worker[w].idx))
    /\ worker' = Advance(w)
    /\ UNCHANGED << dbVars, processing_thread, stop_event, button, log, uiPc,
                    pollScheduled, histVars >>
    /\ UNCHANGED tabVars

\* self.processing_queue.put(("complete",))
WEnd(w) ==
    /\ worker[w].pc = "end"
    /\ Put(Entry("complete", "done", 0))
    /\ worker' = [worker EXCEPT ![w].pc = "exit"]
    /\ UNCHANGED << dbVars, processing_thread, stop_event, button, log, uiPc,
                    pollScheduled, histVars >>
    /\ UNCHANGED tabVars

\* the thread's target function has returned; the thread stops being alive
WExit(w) ==
    /\ worker[w].pc = "exit"
    /\ worker' = [worker EXCEPT ![w] = NoWorker]
    /\ UNCHANGED << dbVars, processing_thread, stop_event, button, queue, log,
                    uiPc, pollScheduled, posted, histVars >>
    /\ UNCHANGED tabVars

\* --------------------------------------------------- the UI thread: import
\* unread "Failed to read file" entries sitting in the queue
PendingReadFails ==
    Cardinality({ i \in 1..Len(queue) : queue[i].txt = "readfail" })

\* the Thread object created by a launch: a slot no live thread occupies
FreeThread == CHOOSE w \in Workers : ~IsAlive(w)

\* process_file_wrapper with the selected file f
ProcessFile(f) ==
    /\ uiPc = "idle"
    /\ button = "normal"
    /\ IF ~f.readable
       THEN /\ PendingReadFails < MaxReadFails
            /\ Put(Entry("error", "readfail", 0))
            /\ UNCHANGED << worker, processing_thread, stop_event, button, log,
                            pollScheduled, launches, loaded, savedThisRun >>
       ELSE /\ launches < MaxRuns
            /\ loaded + Len(f.records) <= MaxRecords
            /\ \E w \in Workers : ~IsAlive(w)
            /\ button' = "disabled"
            /\ log' = <<>>
            /\ queue' = <<>>
            /\ posted' = <<>>
            /\ stop_event' = FALSE
            /\ processing_thread' = FreeThread
            /\ worker' = [worker EXCEPT ![FreeThread] =
                   [NoWorker EXCEPT !.pc = "load", !.recs = f.records,
                                    !.supported = f.supported]]
            /\ pollScheduled' = TRUE
            /\ launches' = launches + 1
            /\ loaded' = loaded + Len(f.records)
            /\ savedThisRun' = {}
    /\ UNCHANGED << dbVars, uiPc, shutdownLog, stopIdx >>
    /\ UNCHANGED tabVars

\* queue.get_nowait(): the entry handed out and what stays queued
Dequeue_Lifo(q) == [item |-> q[Len(q)], rest |-> SubSeq(q, 1, Len(q) - 1)]
Dequeue(q) == [item |-> Head(q), rest |-> Tail(q)]

\* export_csv('enriched_albums.csv'): a failure is swallowed inside and
\* leaves the file as it was
ExportCsv(ok) ==
    IF ok /\ connOpen
    THEN [exists |-> TRUE, rows |-> ExportRows(albums)]
    ELSE csvFile

\* is the table replaced by import_csv_data reading `file`?
ReloadReplaces(file, readOk) == file.exists /\ readOk /\ connOpen

\* _on_processing_complete, after the drain loop has appended `lines`:
\* re-enable, export, reload
OnProcessingComplete(lines, exportOk, readOk) ==
    LET file == ExportCsv(exportOk) IN
    /\ button' = "normal"
    /\ log' = log \o lines \o
                   << Entry("log", "alldone", 0),
                        Entry("log", "exported", 0),
                        Entry("log", "loaded", 0) >>
    /\ csvFile' = file
    /\ IF ReloadReplaces(file, readOk)
       THEN /\ albums' = ImportRows(file.rows)
            /\ idIsPK' = FALSE
            /\ tracklist' = TracksAfterReplace(tracklist)
       ELSE UNCHANGED << albums, idIsPK, tracklist >>

\* the drain loop of check_processing_queue over the entries q holds: the
\* lines it appends to the log, whether it reaches a completion marker (on
\* which it returns) and what it leaves queued
RECURSIVE Drain(_)
Drain(q) ==
    IF q = <<>>
    THEN [lines |-> <<>>, complete |-> FALSE, rest |-> <<>>]
    ELSE IF Dequeue(q).item.kind = "complete"
    THEN [lines |-> <<>>, complete |-> TRUE, rest |-> Dequeue(q).rest]
    ELSE LET d == Drain(Dequeue(q).rest) IN
         [d EXCEPT !.lines = <<Dequeue(q).item>> \o @]

\* check_processing_queue: get_nowait() until queue.Empty or a completion
\* marker.  Entries the worker puts while the loop runs are taken by a later
\* PollGet of the same callback (uiPc stays "draining" until Empty is seen).
PollGet ==
    /\ \/ uiPc = "idle" /\ pollScheduled
       \/ uiPc = "draining"
    /\ pollScheduled' = FALSE
    /\ IF queue = <<>>
       THEN /\ uiPc' = "checkAlive"
            /\ UNCHANGED << dbVars, queue, log, button >>
       ELSE /\ queue' = Drain(queue).rest
            /\ IF Drain(queue).complete
               THEN /\ \E exportOk \in BOOLEAN, readOk \in BOOLEAN :
                          OnProcessingComplete(Drain(queue).lines,
                                               exportOk, readOk)
                    /\ uiPc' = "idle"
                    /\ UNCHANGED connOpen
               ELSE /\ log' = log \o Drain(queue).lines
                    /\ uiPc' = "draining"
                    /\ UNCHANGED << dbVars, button >>
    /\ UNCHANGED << worker, processing_thread, stop_event, posted, histVars >>
    /\ UNCHANGED tabVars

\* self.processing_thread and self.processing_thread.is_alive()
StillRunning_Never == FALSE
StillRunning == IsAlive(processing_thread)

\* check_processing_queue after queue.Empty: poll again while the thread is
\* alive, otherwise re-enable the button
PollCheckAlive ==
    /\ uiPc = "checkAlive"
    /\ uiPc' = "idle"
    /\ IF StillRunning
       THEN pollScheduled' = TRUE /\ UNCHANGED button
       ELSE button' = "normal" /\ UNCHANGED pollScheduled
    /\ UNCHANGED << dbVars, worker, processing_thread, stop_event, queue, log,
                    posted, histVars >>
    /\ UNCHANGED tabVars

\* import_csv_data(filepath) on a CSV file other than the fresh export
ImportCsvData(rows) ==
    /\ uiPc = "idle"
    /\ albums' = ImportRows(rows)
    /\ idIsPK' = FALSE
    /\ tracklist' = TracksAfterReplace(tracklist)
    /\ UNCHANGED << connOpen, csvFile, worker, processing_thread, stop_event,
                    button, queue, log, uiPc, pollScheduled, posted, histVars >>
    /\ UNCHANGED tabVars

\* ------------------------------------------------- the UI thread: shutdown
\* index of the last record whose loop body worker w has entered
LastStarted(w) ==
    IF w = 0 THEN 0
    ELSE IF worker[w].pc = "check" THEN worker[w].idx - 1
    ELSE worker[w].idx

\* thread.join(timeout=2) returns once the thread is dead or the two seconds
\* are over
JoinTimeoutElapses_Never == FALSE
JoinTimeoutElapses == TRUE
JoinReturns == ~IsAlive(processing_thread) \/ JoinTimeoutElapses

\* shutdown -> on_close: stop_event.set(), then the is_alive() test
ShutdownOnClose ==
    /\ uiPc = "idle"
    /\ stop_event' = TRUE
    /\ stopIdx' = LastStarted(processing_thread)
    /\ shutdownLog' = Append(shutdownLog, "stop")
    /\ uiPc' = IF IsAlive(processing_thread) THEN "join" ELSE "disconnect"
    /\ UNCHANGED << dbVars, worker, processing_thread, button, queue, log,
                    pollScheduled, launches, loaded, posted, savedThisRun >>
    /\ UNCHANGED tabVars

ShutdownJoin ==
    /\ uiPc = "join"
    /\ JoinReturns
    /\ uiPc' = "disconnect"
    /\ shutdownLog' = Append(shutdownLog, "join")
    /\ UNCHANGED << dbVars, worker, processing_thread, stop_event, button,
                    queue, log, pollScheduled, launches, loaded, posted,
                    savedThisRun, stopIdx >>
    /\ UNCHANGED tabVars

\* self.database.disconnect()
ShutdownDisconnect ==
    /\ uiPc = "disconnect"
    /\ connOpen' = FALSE
    /\ uiPc' = "destroy"
    /\ shutdownLog' = Append(shutdownLog, "disconnect")
    /\ UNCHANGED << albums, idIsPK, tracklist, csvFile, worker,
                    processing_thread, stop_event, button, queue, log,
                    pollScheduled, launches, loaded, posted, savedThisRun,
                    stopIdx >>
    /\ UNCHANGED tabVars

\* self.root.destroy(): the widgets and the pending after() callbacks go
\* with the window
ShutdownDestroy ==
    /\ uiPc = "destroy"
    /\ uiPc' = "destroyed"
    /\ pollScheduled' = FALSE
    /\ log' = <<>>
    /\ shutdownLog' = Append(shutdownLog, "destroy")
    /\ UNCHANGED << dbVars, worker, processing_thread, stop_event, button,
                    queue, launches, loaded, posted, savedThisRun, stopIdx >>
    /\ UNCHANGED tabVars

\* ----------------------------------------------------------- specification
WorkerStep ==
    \E w \in Workers :
        \/ WLoad(w)
        \/ WCheckStop(w)
        \/ WSelect(w)
        \/ WEnrich(w)
        \/ WSaveAlbum(w)
        \/ WSaveTracks(w)
        \/ WPost(w)
        \/ WEnd(w)
        \/ WExit(w)

ShutdownStep ==
    \/ ShutdownOnClose
    \/ ShutdownJoin
    \/ ShutdownDisconnect
    \/ ShutdownDestroy

Next ==
    \/ WorkerStep
    \/ \E f \in Files : ProcessFile(f)
    \/ PollGet
    \/ PollCheckAlive
    \/ \E rows \in ForeignCsvs : ImportCsvData(rows)
    \/ ShutdownStep

Spec == Init /\ [][Next]_vars

\* ------------------------------------------------------------- RankerTab
\* rows of "SELECT DiscogsID FROM albums [WHERE <filter>]": the identifiers of
\* the albums that match the active filter, in table order
QueryResults == { [i \in 1..n |-> i] : n \in 0..MaxAlbums }

Choices == {"L", "R"}

\* smallest L with 2^L >= n: math.ceil(math.log2(n))
RECURSIVE CeilLog2(_)
CeilLog2(n) == IF n <= 1 THEN 0 ELSE 1 + CeilLog2((n + 1) \div 2)

\* start_ranking_game, lines 181-184
TotalComparisons_NoPlusOne(n) ==
    LET L == IF n > 1 THEN CeilLog2(n) ELSE 0
    IN  IF n > 1 THEN n * L - n ELSE 0
TotalComparisons(n) ==
    LET L == IF n > 1 THEN CeilLog2(n) ELSE 0
    IN  IF n > 1 THEN n * L - n + 1 ELSE 0

\* `if choice == 'L'` in the merge loop: the left head is appended
TakesLeft_Swapped(choice) == choice = "R"
TakesLeft(choice) == choice = "L"

\* A run of the generator on the choices sent so far.  It either stops at a
\* yield (blocked, with the pair it offers) or returns its list (out) and the
\* choices it has not consumed (rest).
\* the merge loop of _mergesort, lines 210-222
RECURSIVE Merge(_, _, _, _, _, _)
Merge(left, right, i, j, merged, ch) ==
    IF i <= Len(left) /\ j <= Len(right)
    THEN IF ch = <<>>
         THEN [blocked |-> TRUE, pair |-> <<left[i], right[j]>>,
               out |-> <<>>, rest |-> <<>>]
         ELSE IF TakesLeft(Head(ch))
         THEN Merge(left, right, i + 1, j, Append(merged, left[i]), Tail(ch))
         ELSE Merge(left, right, i, j + 1, Append(merged, right[j]), Tail(ch))
    ELSE [blocked |-> FALSE, pair |-> <<>>,
          out |-> merged \o SubSeq(left, i, Len(left))
                         \o SubSeq(right, j, Len(right)),
          rest |-> ch]

\* _mergesort(items), lines 204-209
RECURSIVE MergeSort(_, _)
MergeSort(items, ch) ==
    IF Len(items) <= 1
    THEN [blocked |-> FALSE, pair |-> <<>>, out |-> items, rest |-> ch]
    ELSE LET mid == Len(items) \div 2
             l == MergeSort(SubSeq(items, 1, mid), ch)
         IN  IF l.blocked THEN l
             ELSE LET r == MergeSort(SubSeq(items, mid + 1, Len(items)), l.rest)
                  IN  IF r.blocked THEN r
                      ELSE Merge(l.out, r.out, 1, 1, <<>>, r.rest)

\* reset_ranking_state: the values it assigns
ResetRankingState ==
    /\ start_button' = "normal"
    /\ save_button' = "disabled"
    /\ progress_bar' = [progress_bar EXCEPT !.value = 0]
    /\ sort_gen' = NoGen
    /\ current_match' = <<>>
    /\ comparisons_done' = 0
    /\ total_comparisons' = 0

\* _advance_match on generator g, entered with comparisons-done counter c
\* and the Save button in state save: show the next pair, or on
\* StopIteration keep the returned list, enable Save Results and list it
AdvanceMatch(g, c, save) ==
    LET run == MergeSort(g.items, g.sent) IN
    /\ comparisons_done' = c
    /\ IF run.blocked
       THEN /\ sort_gen' = g
            /\ current_match' = run.pair
            /\ save_button' = save
            /\ ranker_dialog' = "pair"
            /\ UNCHANGED sorted_final
       ELSE /\ sort_gen' = [g EXCEPT !.state = "exhausted"]
            /\ sorted_final' = [kind |-> "list", items |-> run.out]
            /\ save_button' = "normal"
            /\ ranker_dialog' = "results"
            /\ current_match' = IF g.sent = <<>> THEN <<>> ELSE current_match

\* start_ranking_game with the rows the query returns
StartRankingGame(ids) ==
    /\ selected_tab = "ranker"
    /\ start_button = "normal"
    /\ queried + Len(ids) <= MaxQueried
    /\ queried' = queried + Len(ids)
    /\ start_button' = "disabled"
    /\ comparison_frame' = "packed"
    /\ IF ids = <<>>
       THEN /\ save_button' = "disabled"
            /\ progress_bar' = [progress_bar EXCEPT !.value = 0]
            /\ sort_gen' = NoGen
            /\ current_match' = <<>>
            /\ comparisons_done' = 0
            /\ total_comparisons' = 0
            /\ ranker_dialog' = "No Albums"
            /\ UNCHANGED sorted_final
       ELSE /\ total_comparisons' = TotalComparisons(Len(ids))
            /\ progress_bar' = [value |-> 0,
                                maximum |-> TotalComparisons(Len(ids))]
            /\ AdvanceMatch([state |-> "suspended", items |-> ids,
                             sent |-> <<>>], 0, "disabled")
    /\ UNCHANGED << nonRankerVars, selected_tab >>

\* record_choice(choice): a click on one of the two album buttons
RecordChoice(choice) ==
    /\ selected_tab = "ranker"
    /\ comparison_frame = "packed"
    /\ IF sort_gen.state = "none"
       THEN \* None.send: AttributeError, reported by Tk, nothing assigned
            /\ ranker_dialog' = "none"
            /\ UNCHANGED << sort_gen, current_match, comparisons_done,
                            sorted_final, save_button, progress_bar >>
       ELSE IF sort_gen.state = "exhausted"
       THEN \* send on a finished generator: StopIteration with value None
            /\ sorted_final' = [kind |-> "None", items |-> <<>>]
            /\ save_button' = "normal"
            /\ ranker_dialog' = "results"
            /\ UNCHANGED << sort_gen, current_match, comparisons_done,
                            progress_bar >>
       ELSE /\ progress_bar' = [progress_bar EXCEPT
                                   !.value = comparisons_done + 1]
            /\ AdvanceMatch([sort_gen EXCEPT !.sent = Append(@, choice)],
                            comparisons_done + 1, save_button)
    /\ UNCHANGED << nonRankerVars, selected_tab, start_button, comparison_frame,
                    total_comparisons, queried >>

\* apply_ranking_filter
ApplyRankingFilter ==
    /\ selected_tab = "ranker"
    /\ ResetRankingState
    /\ ranker_dialog' = "Filter Applied"
    /\ UNCHANGED << nonRankerVars, selected_tab, comparison_frame, sorted_final,
                    queried >>

Tabs == {"import", "browser", "ranker", "analytics"}

\* widget.bind(sequence, func) with add=None: the new handler replaces the
\* handlers bound before
Bind(bound, handler) == <<handler>>

\* what is bound to the notebook's <<NotebookTabChanged>> after
\* setup_ranker_tab (line 41) and then MainGUI.setup_tabs (line 81) have run
TabChangedHandlers ==
    Bind(Bind(<<>>, "RankerTab.on_tab_changed"), "MainGUI.on_tab_changed")

\* the user selects tab t: the handlers bound to the event run; the ranker's
\* handler resets when the tab now selected is the ranker tab itself
TabChanged(t) ==
    /\ t # selected_tab
    /\ selected_tab' = t
    /\ IF (\E k \in 1..Len(TabChangedHandlers) :
              TabChangedHandlers[k] = "RankerTab.on_tab_changed")
          /\ t = "ranker"
       THEN /\ ResetRankingState
            /\ UNCHANGED << comparison_frame, sorted_final, ranker_dialog >>
       ELSE UNCHANGED << start_button, save_button, progress_bar,
                         comparison_frame, sort_gen, current_match,
                         comparisons_done, total_comparisons, sorted_final,
                         ranker_dialog >>
    /\ UNCHANGED << nonRankerVars, queried >>

RankerNext ==
    \/ \E ids \in QueryResults : StartRankingGame(ids)
    \/ \E choice \in Choices : RecordChoice(choice)
    \/ ApplyRankingFilter
    \/ \E t \in Tabs : TabChanged(t)

RankerSpec == Init /\ [][RankerNext]_vars

\* ----------------------------------------------------------- AnalyticsTab
\* the classes of the analytics package: the module that holds the class,
\* its base, the methods its body defines, and the keywords its fetch_data
\* takes (named ones, and whether it ends in **kwargs)
Class(module, name, base, methods, named, varkw) ==
    [module |-> module, name |-> name, base |-> base, methods |-> methods,
     named |-> named, varkw |-> varkw]

Charting == {"fetch_data", "create_figure"}

AnalyticsPackage ==
    { Class("analytics_base", "AnalyticsBase", "ABC", {"__init__"}, {}, FALSE),
      Class("analytics_base", "AlbumsCount", "AnalyticsBase",
            Charting \cup {"_calculate_statistics", "render"}, {}, TRUE),
      Class("album_count", "AlbumsCount", "AnalyticsBase",
            Charting \cup {"__init__", "_calculate_statistics", "render"},
            {}, TRUE),
      Class("artist_ratings", "ArtistRatings", "AnalyticsBase",
            Charting \cup {"__init__", "_calculate_statistics", "render"},
            {}, TRUE),
      Class("average_ratings", "AverageRatings", "AnalyticsBase",
            Charting, {"artist"}, FALSE),
      Class("decade_trends", "DecadeTrends", "AnalyticsBase",
            Charting \cup {"_calculate_insights", "render"},
            {"artist", "genre", "decade"}, TRUE),
      Class("duration_ratings", "DurationRating", "AnalyticsBase",
            Charting \cup {"_calculate_insights", "render"}, {}, TRUE),
      Class("genre_ratings", "GenreRatings", "AnalyticsBase",
            Charting \cup {"_calculate_insights", "render"}, {}, TRUE),
      Class("label_ratings", "LabelAnalytics", "AnalyticsBase",
            Charting \cup {"_calculate_insights", "render"}, {}, TRUE),
      Class("rating_distro", "RatingDistribution", "AnalyticsBase",
            Charting \cup {"_calculate_insights", "render"}, {}, TRUE),
      Class("region_ratings", "RegionRatings", "AnalyticsBase",
            Charting \cup {"_calculate_insights", "render"}, {}, TRUE),
      Class("subgenre_ratings", "SubgenreRatings", "AnalyticsBase",
            Charting \cup {"_calculate_insights", "render"}, {}, TRUE) }

\* the class object the name AnalyticsBase is bound to in a report module
AnalyticsBase ==
    CHOOSE c \in AnalyticsPackage :
        c.module = "analytics_base" /\ c.name = "AnalyticsBase"

\* module discovery: every module of the package but analytics_base, and in
\* it every subclass of AnalyticsBase other than AnalyticsBase itself
Discovered ==
    { c \in AnalyticsPackage :
        c.module # "analytics_base" /\ c.base = AnalyticsBase.name }

\* ANALYTICS_CLASSES: the discovered classes indexed by class name
ANALYTICS_CLASSES ==
    [n \in { c.name : c \in Discovered } |->
        CHOOSE c \in Discovered : c.name = n]

\* sorted(ANALYTICS_CLASSES.keys()): the values of the Analysis combo
Reports == DOMAIN ANALYTICS_CLASSES

\* attribute lookup on an instance of cls: the class body, then the base
HasMethod(cls, m) == m \in cls.methods \/ m \in AnalyticsBase.methods

\* fetch_data(**kwargs): Python rejects a keyword the signature does not
\* name unless the signature ends in **kwargs
AcceptsKeywords(cls, kwargs) == cls.varkw \/ kwargs \subseteq cls.named

\* the keyword arguments _draw_chart builds from the two filter variables
Kwargs == IF filter_value = AllText THEN {} ELSE {filter_type}

FilterTypes == {"all", "genre", "artist", "decade"}

\* _update_filter_values when the filter query finds n distinct values:
\* 'All' is put first, the combo becomes readonly and shows 'All'
UpdateFilterValues(n) ==
    /\ filter_combo' = [state |-> "readonly",
                        values |-> [k \in 1..(n + 1) |-> k - 1]]
    /\ filter_value' = AllText
    /\ recomputed' = TRUE

\* a filter radiobutton is clicked: its command is _update_filter_values
SelectFilterType(ft, n) ==
    /\ selected_tab = "analytics"
    /\ ft = "all" => n = 0
    /\ filter_type' = ft
    /\ UpdateFilterValues(n)
    /\ callback_exc' = "none"
    /\ UNCHANGED << analysis_type, chart_frame, current_analysis,
                    draw_pending, fig_data, exported >>
    /\ UNCHANGED nonAnalyticsVars

\* show_loading_message
ShowLoadingMessage ==
    chart_frame' = [message |-> "Working...", chart |-> "none",
                    insights |-> [kind |-> "none", Records |-> 0]]

\* apply_filters_and_draw: show the loading text and leave the drawing to a
\* later callback of the event loop
ApplyFiltersAndDraw(analysis) ==
    IF analysis = ""
    THEN UNCHANGED << chart_frame, draw_pending >>
    ELSE /\ draw_pending < MaxPending
         /\ ShowLoadingMessage
         /\ draw_pending' = draw_pending + 1

\* a value of the filter combo is selected: the binding calls
\* apply_filters_and_draw
SelectFilterValue(v) ==
    /\ selected_tab = "analytics"
    /\ filter_combo.state = "readonly"
    /\ \E k \in 1..Len(filter_combo.values) : filter_combo.values[k] = v
    /\ filter_value' = v
    /\ ApplyFiltersAndDraw(analysis_type)
    /\ callback_exc' = "none"
    /\ recomputed' = FALSE
    /\ UNCHANGED << analysis_type, filter_type, filter_combo,
                    current_analysis, fig_data, exported >>
    /\ UNCHANGED nonAnalyticsVars

\* a report is selected in the Analysis combo: the binding calls
\* safe_apply_filters_and_draw, whose try block holds apply_filters_and_draw
\* only; that call schedules the drawing and returns
SelectAnalysis(a) ==
    /\ selected_tab = "analytics"
    /\ analysis_type' = a
    /\ ApplyFiltersAndDraw(a)
    /\ callback_exc' = "none"
    /\ recomputed' = FALSE
    /\ UNCHANGED << filter_type, filter_value, filter_combo,
                    current_analysis, fig_data, exported >>
    /\ UNCHANGED nonAnalyticsVars

\* _calculate_statistics of the two reports that define one: their own
\* label->value mapping (here: how many rows it summarises)
OwnStatistics(rows) == [kind |-> "own", Records |-> rows]

\* fetch_data(**kwargs) with the keywords _draw_chart builds
ActiveFilter ==
    IF filter_value = AllText THEN NoKeywords
    ELSE [type |-> filter_type, value |-> filter_value]

\* _draw_chart, run by the event loop, when fetch_data finds rows rows:
\* clear the frame, build the report, fetch, draw the chart, then ask the
\* report for its statistics and fill the insight cell.  An exception leaves
\* the callback at the statement that raised it.
DrawChart(rows) ==
    LET cls == ANALYTICS_CLASSES[analysis_type] IN
    /\ draw_pending > 0
    /\ draw_pending' = draw_pending - 1
    /\ recomputed' = FALSE
    /\ IF ~AcceptsKeywords(cls, Kwargs)
       THEN /\ current_analysis' = cls.name
            /\ chart_frame' = [message |-> "none", chart |-> "none",
                               insights |-> [kind |-> "none", Records |-> 0]]
            /\ callback_exc' = "TypeError"
            /\ fig_data' = NoFig
       ELSE IF ~HasMethod(cls, "_calculate_statistics")
       THEN /\ current_analysis' = cls.name
            /\ chart_frame' = [message |-> "none", chart |-> cls.name,
                               insights |-> [kind |-> "none", Records |-> 0]]
            /\ callback_exc' = "AttributeError"
            /\ fig_data' = ActiveFilter
       ELSE /\ current_analysis' = cls.name
            /\ chart_frame' = [message |-> "none", chart |-> cls.name,
                               insights |-> OwnStatistics(rows)]
            /\ callback_exc' = "none"
            /\ fig_data' = ActiveFilter
    /\ UNCHANGED << analysis_type, filter_type, filter_value, filter_combo,
                    exported >>
    /\ UNCHANGED nonAnalyticsVars

\* export_chart_and_insights(fig, stats, filepath): savefig, then the text;
\* savefig on None raises before anything is written
ExportChartAndInsights(fig, stats) ==
    IF fig = NoFig
    THEN exported
    ELSE [dialog |-> "Export Complete", png |-> fig, txt |-> stats]

\* on_export_clicked; chosen: the file dialog returned a name.  The
\* statistics come from fetch_data() called without keywords.  The warning
\* and error dialogs write no file.
OnExportClicked(chosen) ==
    /\ selected_tab = "analytics"
    /\ exported' =
          IF current_analysis = "None" \/ ~chosen
          THEN exported
          ELSE IF ~HasMethod(ANALYTICS_CLASSES[current_analysis],
                             "_calculate_statistics")
          THEN exported
          ELSE ExportChartAndInsights(fig_data, NoKeywords)
    /\ callback_exc' = "none"
    /\ recomputed' = FALSE
    /\ UNCHANGED << analysis_type, filter_type, filter_value, filter_combo,
                    chart_frame, current_analysis, draw_pending, fig_data >>
    /\ UNCHANGED nonAnalyticsVars

AnalyticsNext ==
    \/ \E ft \in FilterTypes, n \in 0..MaxOptions : SelectFilterType(ft, n)
    \/ \E v \in 0..MaxOptions : SelectFilterValue(v)
    \/ \E a \in Reports : SelectAnalysis(a)
    \/ \E rows \in 1..MaxRows : DrawChart(rows)
    \/ \E chosen \in BOOLEAN : OnExportClicked(chosen)
    \/ \E t \in Tabs : TabChanged(t)

AnalyticsSpec == Init /\ [][AnalyticsNext]_vars

\* ---------------------------------------------------------- RankingSystem
\* the album lists initialize is called with: ids 1..n
AlbumLists == { [i \in 1..n |-> i] : n \in 0..MaxRanked }

\* _generate_comparisons before the shuffle: every pair (albums[i],
\* albums[j]) with i < j, in the order of the two nested loops
RECURSIVE PairsFrom(_, _, _)
PairsFrom(ids, i, j) ==
    IF i > Len(ids) THEN <<>>
    ELSE IF j > Len(ids) THEN PairsFrom(ids, i + 1, i + 2)
    ELSE << <<ids[i], ids[j]>> >> \o PairsFrom(ids, i, j + 1)

\* random.shuffle(pairs): any arrangement of the same pairs
Shuffles(pairs) ==
    { [k \in 1..Len(pairs) |-> pairs[f[k]]] :
        f \in { g \in [1..Len(pairs) -> 1..Len(pairs)] :
                  \A x, y \in 1..Len(pairs) : x # y => g[x] # g[y] } }

\* initialize(albums), albums being the list ids
Initialize(ids) ==
    /\ rankings' = [i \in 1..Len(ids) |-> 1000]
    /\ comparisons' \in Shuffles(PairsFrom(ids, 1, 2))
    /\ UNCHANGED results
    /\ UNCHANGED nonEloVars

\* fixed-point reals: a real x is held as the integer part of Scale * x
Scale == 10000
\* ln(10) / 400, in units of 10^-8
Ln10Over400 == 575646
\* terms of the exponential series summed
SeriesTerms == 12

Abs(x) == IF x < 0 THEN -x ELSE x

RECURSIVE ExpSeries(_, _, _, _)
ExpSeries(y, k, term, sum) ==
    IF k > SeriesTerms THEN sum
    ELSE LET t == (term * y) \div (Scale * k)
         IN ExpSeries(y, k + 1, t, sum + t)

\* 10 ** (d / 400) for 0 <= d <= MaxGap, times Scale
Pow10(d) == ExpSeries((d * Ln10Over400) \div Scale, 1, Scale, Scale)

\* k * (1 - expected_winner), k = 30, in thousandths:
\* 1 - 1 / (1 + 10 ** ((loser_rating - winner_rating) / 400))
GainMilli(winner_rating, loser_rating) ==
    LET e == loser_rating - winner_rating
        X == Pow10(Abs(e))
    IN IF e >= 0 THEN (30000 * X) \div (Scale + X)
       ELSE (30000 * Scale) \div (Scale + X)

\* int(x): the fraction is dropped; int(-x) = -int(x)
IntOf(milli) == milli \div 1000

\* round(x), x >= 0 and not halfway between two integers
RoundOf(milli) == (milli + 500) \div 1000

\* record_result(winner_id, loser_id), the two ids of a comparison pair
RecordResult(winner_id, loser_id) ==
    LET gain == IntOf(GainMilli(rankings[winner_id], rankings[loser_id])) IN
    /\ winner_id \in DOMAIN rankings
    /\ loser_id \in DOMAIN rankings
    /\ winner_id # loser_id
    /\ results < MaxResults
    /\ Abs(rankings[loser_id] - rankings[winner_id]) <= MaxGap
    /\ results' = results + 1
    /\ rankings' = [rankings EXCEPT ![winner_id] = @ + gain,
                                    ![loser_id] = @ - gain]
    /\ UNCHANGED comparisons
    /\ UNCHANGED nonEloVars

EloNext ==
    \/ \E ids \in AlbumLists : Initialize(ids)
    \/ \E w, l \in 1..MaxRanked : RecordResult(w, l)

EloSpec == Init /\ [][EloNext]_vars

\* ---------------------------------------------------------- DataProcessor
\* the control character U+0001
Ctl == "x01"

\* the characters of the cells considered: the ampersand, the letters of
\* the entity name AMP, the semicolon, a control character and the blank
CellChars == {"&", "A", "M", "P", ";", Ctl, " "}

\* the texts of at most n characters
RECURSIVE TextsUpTo(_)
TextsUpTo(n) ==
    IF n = 0 THEN { <<>> }
    ELSE LET shorter == TextsUpTo(n - 1)
         IN shorter \cup { Append(t, c) : t \in shorter, c \in CellChars }

\* the values of a cell: a missing value (None / NaN) or a text
CellValues == {None} \cup TextsUpTo(MaxLen)

\* html.unescape: a character that can stand in a named character reference
\* (anything but tab, newline, form feed, blank, <, &, # and ;)
IsNameChar(c) == c \notin {" ", "<", "&", "#", ";"}

\* the longest run of name characters s starts with
RECURSIVE NameRun(_)
NameRun(s) ==
    IF s # <<>> /\ IsNameChar(Head(s))
    THEN <<Head(s)>> \o NameRun(Tail(s))
    ELSE <<>>

\* html.entities.html5 restricted to names written with CellChars: the
\* reference AMP, with and without its semicolon, stands for &
Html5 == { <<"A", "M", "P">>, <<"A", "M", "P", ";">> }
Html5Value(name) == <<"&">>

\* html._replace_charref for a named reference: the whole name if html5
\* knows it, else its longest known prefix of two characters or more
\* followed by the rest, else the text unchanged
RECURSIVE ReplacePrefix(_, _)
ReplacePrefix(name, x) ==
    IF x < 2 THEN <<"&">> \o name
    ELSE IF SubSeq(name, 1, x) \in Html5
    THEN Html5Value(SubSeq(name, 1, x)) \o SubSeq(name, x + 1, Len(name))
    ELSE ReplacePrefix(name, x - 1)

ReplaceCharref(name) ==
    IF name \in Html5 THEN Html5Value(name)
    ELSE ReplacePrefix(name, Len(name) - 1)

\* html.unescape(text): one left-to-right pass over the references
\* &name and &name;
RECURSIVE Unescape(_)
Unescape(s) ==
    IF s = <<>> THEN <<>>
    ELSE IF Head(s) # "&" THEN <<Head(s)>> \o Unescape(Tail(s))
    ELSE LET run == NameRun(Tail(s))
             n == Len(run)
             semi == n + 2 <= Len(s) /\ s[n + 2] = ";"
             name == IF semi THEN Append(run, ";") ELSE run
         IN IF n = 0 THEN <<"&">> \o Unescape(Tail(s))
            ELSE ReplaceCharref(name)
                    \o Unescape(SubSeq(s, Len(name) + 2, Len(s)))

\* the loop of lines 20-23: unescape until the text no longer changes
RECURSIVE UnescapeToFixpoint(_)
UnescapeToFixpoint(s) ==
    LET text == Unescape(s)
    IN IF text = s THEN s ELSE UnescapeToFixpoint(text)

\* re.sub(r'[\x00-\x1f\x7f-\x9f]', '', text)
StripControl(s) == SelectSeq(s, LAMBDA c : c # Ctl)

\* clean_imported_data(value).  The two numeric-reference substitutions of
\* lines 25-26 match only text that holds a #, which CellChars has not.
CleanImportedData(value) ==
    IF value = None THEN <<>>
    ELSE Strip(StripControl(UnescapeToFixpoint(value)))

\* load_albums cleans a cell it has read
CleanCell ==
    /\ cleaned = <<>>
    /\ cleaned' = << CleanImportedData(cell_value) >>
    /\ UNCHANGED cell_value
    /\ UNCHANGED << programVars, decadeVars, browserVars >>

\* the cleaner is applied to its own result
CleanAgain ==
    /\ cleaned # <<>>
    /\ Len(cleaned) < MaxCleanings
    /\ cleaned' = Append(cleaned, CleanImportedData(cleaned[Len(cleaned)]))
    /\ UNCHANGED cell_value
    /\ UNCHANGED << programVars, decadeVars, browserVars >>

\* any cell value may be handed to the cleaner
CleanerInit ==
    /\ ProgramInit
    /\ DecadeIdle
    /\ BrowserIdle
    /\ cell_value \in CellValues
    /\ cleaned = <<>>

CleanerNext == CleanCell \/ CleanAgain

CleanerSpec == CleanerInit /\ [][CleanerNext]_vars

\* ------------------------------------------- reports: the decade filter
Digits == <<"0", "1", "2", "3", "4", "5", "6", "7", "8", "9">>
IsDigit(c) == \E k \in 1..10 : Digits[k] = c
DigitValue(c) == (CHOOSE k \in 1..10 : Digits[k] = c) - 1

\* int(text) of a text of digits
RECURSIVE ToInt(_)
ToInt(s) ==
    IF s = <<>> THEN 0
    ELSE 10 * ToInt(SubSeq(s, 1, Len(s) - 1)) + DigitValue(s[Len(s)])

\* str(n), n >= 0
RECURSIVE ToText(_)
ToText(n) ==
    IF n < 10 THEN << Digits[n + 1] >>
    ELSE Append(ToText(n \div 10), Digits[(n % 10) + 1])

\* no 4-digit year / SQL NULL / NaN
NoYear == -1

\* str.extract(r"(\d{4})"): the first four digits in a row, as a number
RECURSIVE ExtractYear(_)
ExtractYear(s) ==
    IF Len(s) < 4 THEN NoYear
    ELSE IF \A k \in 1..4 : IsDigit(s[k]) THEN ToInt(SubSeq(s, 1, 4))
    ELSE ExtractYear(Tail(s))

\* the digits a text starts with
RECURSIVE LeadingDigits(_)
LeadingDigits(s) ==
    IF s # <<>> /\ IsDigit(Head(s))
    THEN <<Head(s)>> \o LeadingDigits(Tail(s))
    ELSE <<>>

\* CAST(SUBSTR(Release_Date, 1, 4) AS INTEGER): the number the first four
\* characters start with, 0 if they start with none, NULL for NULL
CastSubstr(s) ==
    IF s = None THEN NoYear
    ELSE ToInt(LeadingDigits(SubSeq(s, 1, IF Len(s) < 4 THEN Len(s) ELSE 4)))

\* the Release_Date values considered: a year alone, a year first, a year
\* after a month name or number, a year of another decade, no year, NULL
ReleaseDates ==
    { <<"1", "9", "9", "4">>,
      <<"1", "9", "9", "4", "-", "0", "5">>,
      <<"M", "a", "y", " ", "1", "9", "9", "4">>,
      <<"0", "5", "/", "1", "9", "9", "4">>,
      <<"1", "9", "8", "7">>,
      <<"n", "/", "a">>,
      None }

DateColumns == UNION { [1..n -> ReleaseDates] : n \in 0..MaxDates }

\* the decade keyword: absent (filter value 'All') or a text like '1990s'
NoDecade == <<>>
DecadeFilters == { NoDecade, <<"1", "9", "9", "0", "s">>,
                   <<"1", "9", "8", "0", "s">> }

\* int(decade[:-1])
DecadeStart(decade) == ToInt(SubSeq(decade, 1, Len(decade) - 1))

\* (year // 10 * 10).astype(int).astype(str) + 's'
DecadeText(year) == Append(ToText((year \div 10) * 10), "s")

\* how each report's fetch_data treats Release_Date
DecadeHandling ==
    [n \in Reports |->
        CASE n = "AlbumsCount" -> "sql substr"
          [] n \in {"ArtistRatings", "LabelAnalytics", "RatingDistribution"}
               -> "year between"
          [] n \in {"DecadeTrends", "DurationRating"} -> "dropna, decade"
          [] n = "GenreRatings" -> "astype(int), decade"
          [] n \in {"RegionRatings", "SubgenreRatings"}
               -> "astype(int), year between"
          [] OTHER -> "none"]

\* the rows (by position) fetch_data of report n keeps, or the exception it
\* raises, for the Release_Date column dates and the decade keyword
FetchData(n, dates, decade) ==
    LET rows == DOMAIN dates
        year(i) == ExtractYear(dates[i])
        start == DecadeStart(decade)
        between == { i \in rows : year(i) # NoYear /\ year(i) >= start
                                    /\ year(i) < start + 10 }
        same == { i \in rows : year(i) # NoYear
                                 /\ DecadeText(year(i)) = decade }
        h == DecadeHandling[n]
        Rows(r) == [report |-> n, decade |-> decade, kind |-> "rows",
                    rows |-> r]
        Raised(e) == [report |-> n, decade |-> decade, kind |-> e,
                      rows |-> {}]
    IN  IF decade # NoDecade
           /\ ~AcceptsKeywords(ANALYTICS_CLASSES[n], {"decade"})
        THEN Raised("TypeError")
        ELSE CASE h = "sql substr" ->
                    Rows(IF decade = NoDecade THEN rows
                         ELSE { i \in rows : CastSubstr(dates[i]) >= start
                                   /\ CastSubstr(dates[i]) <= start + 9 })
               [] h = "year between" ->
                    Rows(IF decade = NoDecade THEN rows ELSE between)
               [] h = "dropna, decade" ->
                    Rows(IF decade = NoDecade
                         THEN { i \in rows : year(i) # NoYear }
                         ELSE same)
               [] h = "astype(int), decade" ->
                    IF \E i \in rows : year(i) = NoYear
                    THEN Raised("IntCastingNaNError")
                    ELSE Rows(IF decade = NoDecade THEN rows ELSE same)
               [] h = "astype(int), year between" ->
                    IF \E i \in rows : year(i) = NoYear
                    THEN Raised("IntCastingNaNError")
                    ELSE Rows(IF decade = NoDecade THEN rows ELSE between)
               [] OTHER -> Rows(rows)

\* a report fetches its data from the table
Fetch(n, decade) ==
    /\ fetched' = FetchData(n, release_dates, decade)
    /\ UNCHANGED release_dates
    /\ UNCHANGED << programVars, cleanerVars, browserVars >>

\* any albums table may be in the database
DecadeInit ==
    /\ ProgramInit
    /\ CleanerIdle
    /\ BrowserIdle
    /\ release_dates \in DateColumns
    /\ fetched = NotFetched

DecadeNext == \E n \in Reports, decade \in DecadeFilters : Fetch(n, decade)

DecadeSpec == DecadeInit /\ [][DecadeNext]_vars

\* ------------------------------------------- BrowserTab: the artist filter
ArtistChars == {"a", "n", "d", ",", "&", " "}

RECURSIVE ArtistTextsUpTo(_)
ArtistTextsUpTo(n) ==
    IF n = 0 THEN { <<>> }
    ELSE LET shorter == ArtistTextsUpTo(n - 1)
         IN shorter \cup { Append(t, c) : t \in shorter, c \in ArtistChars }

\* the values of an Artist cell: NULL or a text
ArtistCells == {None} \cup ArtistTextsUpTo(MaxArtistLen)

\* the Artist column of any albums table
ArtistColumns == UNION { [1..n -> ArtistCells] : n \in 0..MaxBrowsed }

\* the alternatives of (?:,|&|and)
Separators == { <<",">>, <<"&">>, <<"a", "n", "d">> }

StartsWith(s, prefix) ==
    Len(s) >= Len(prefix) /\ SubSeq(s, 1, Len(prefix)) = prefix

\* number of characters \s* takes at the head of s
LeadingSpace(s) == Len(s) - Len(LStrip(s))

\* length of the match of \s*(?:,|&|and)\s* at the head of s, 0 if none
MatchLen(s) ==
    LET rest == LStrip(s) IN
    IF \E sep \in Separators : StartsWith(rest, sep)
    THEN LET sep == CHOOSE x \in Separators : StartsWith(rest, x)
             after == SubSeq(rest, Len(sep) + 1, Len(rest))
         IN  LeadingSpace(s) + Len(sep) + LeadingSpace(after)
    ELSE 0

\* re.split(r'\s*(?:,|&|and)\s*', s), entered with the piece read so far
RECURSIVE ReSplit(_, _)
ReSplit(piece, s) ==
    IF s = <<>> THEN << piece >>
    ELSE IF MatchLen(s) > 0
    THEN << piece >> \o ReSplit(<<>>, SubSeq(s, MatchLen(s) + 1, Len(s)))
    ELSE ReSplit(Append(piece, Head(s)), Tail(s))

\* the names load_filters takes from one Artist cell
ArtistsOf(a) ==
    IF a = None \/ a = <<>> THEN {}
    ELSE LET pieces == ReSplit(<<>>, a)
         IN  { Strip(pieces[k]) : k \in { j \in 1..Len(pieces) :
                                            Strip(pieces[j]) # <<>> } }

\* load_filters: 'All' and the names found in the column (the menu lists
\* them sorted; the order of the labels is not modelled)
LoadFilters(column) ==
    {BrowserAll} \cup UNION { ArtistsOf(column[i]) : i \in 1..Len(column) }

\* update_results with genre 'All': the rows of
\* SELECT ... FROM albums [WHERE "Artist" = ?], as row numbers
UpdateResults(column, artist) ==
    IF artist = BrowserAll THEN 1..Len(column)
    ELSE { i \in 1..Len(column) : column[i] # None /\ column[i] = artist }

\* setup_browser_tab: load_filters, then update_results
SetupBrowserTab ==
    /\ artist_opts = {}
    /\ artist_opts' = LoadFilters(artist_column)
    /\ artist_var' = BrowserAll
    /\ tree' = UpdateResults(artist_column, BrowserAll)
    /\ UNCHANGED artist_column
    /\ UNCHANGED << programVars, cleanerVars, decadeVars >>

\* the command of the artist menu's entry v: artist_var.set(v), on_filter()
SelectArtist(v) ==
    /\ v \in artist_opts
    /\ artist_var' = v
    /\ tree' = UpdateResults(artist_column, v)
    /\ UNCHANGED << artist_column, artist_opts >>
    /\ UNCHANGED << programVars, cleanerVars, decadeVars >>

\* any albums table may be in the database when the tab is set up
BrowserInit ==
    /\ ProgramInit
    /\ CleanerIdle
    /\ DecadeIdle
    /\ artist_column \in ArtistColumns
    /\ artist_opts = {}
    /\ artist_var = BrowserAll
    /\ tree = {}

BrowserNext ==
    \/ SetupBrowserTab
    \/ \E v \in {BrowserAll} \cup ArtistCells : SelectArtist(v)

BrowserSpec == BrowserInit /\ [][BrowserNext]_vars

\* ------------------------------------------------------------------ claims
IsBlank(v) == v = None \/ \A i \in 1..Len(v) : v[i] \in Whitespace

\* C1: every row of the albums table has a non-empty catalog identifier
\* (DiscogsID), whatever save_album calls, CSV imports and end-of-import
\* reloads have happened.
C1_EveryRowHasDiscogsID ==
    \A i \in 1..Len(albums) : ~IsBlank(albums[i].DiscogsID)

\* C2: a save_album call on a record whose DiscogsID is empty after trimming
\* is a no-op (no albums row, no tracklist row, nothing raised); any other
\* call adds exactly one albums row.
C2_Admission ==
    [][ \A w \in Workers :
          (worker[w].pc = "save" /\ worker'[w].pc # "save") =>
             IF IsBlank(worker[w].enriched.DiscogsID)
             THEN /\ albums' = albums
                  /\ tracklist' = tracklist
                  /\ worker'[w].pc = "post"
                  /\ queue' = queue
             ELSE /\ Len(albums') = Len(albums) + 1
                  /\ SubSeq(albums', 1, Len(albums)) = albums
                  /\ ~IsBlank(albums'[Len(albums')].DiscogsID) ]_vars

\* a save_album call has just returned without writing, for a record with an
\* empty identifier, next to a table that holds a row written by another call
C2_Witness ==
    \E w \in Workers :
        /\ worker[w].pc = "post"
        /\ IsBlank(worker[w].enriched.DiscogsID)
        /\ albums # <<>>

\* C3: every tracklist row's album_id is the id of an existing albums row.
C3_NoOrphanTracks ==
    \A k \in 1..Len(tracklist) :
        \E i \in 1..Len(albums) :
            albums[i].id # NullId /\ albums[i].id = tracklist[k].album_id

\* C4: once the poller has stopped for a finished worker, nothing the worker
\* posted is left unprocessed in the queue.
C4_NothingLeftInQueue ==
    (uiPc = "idle" /\ ~pollScheduled /\ ~IsAlive(processing_thread)) =>
        \A i \in 1..Len(queue) : queue[i].txt = "readfail"

HasRow(rows, key) ==
    \E i \in 1..Len(rows) : <<rows[i].Artist, rows[i].Title>> = key

\* the step is the completion handling
CompletionStep ==
    /\ uiPc \in {"idle", "draining"}
    /\ queue # <<>>
    /\ Drain(queue).complete
    /\ queue' = Drain(queue).rest
    /\ log' # log

\* the export did not produce the current table, or the table was never
\* replaced by a reload
ExportOrReloadFailed ==
    \/ csvFile' # [exists |-> TRUE, rows |-> ExportRows(albums)]
    \/ idIsPK'

\* C5: a completion handling whose export or reload fails leaves every row
\* the finished import persisted in the albums table.
C5_FailureKeepsImport ==
    [][ (CompletionStep /\ ExportOrReloadFailed) =>
          \A key \in savedThisRun :
              HasRow(albums, key) => HasRow(albums', key) ]_vars

\* entries of a sequence that the worker posted
WorkerEntries(q) == SelectSeq(q, LAMBDA e : e.txt # "readfail")

Last(q) == q[Len(q)]

Active(w) ==
    worker[w].pc \in {"load", "check", "select", "enrich", "save",
                      "saveTracks", "post", "end"}

\* C7: at most one worker is processing at any time, the Process button is
\* disabled as long as a worker has not posted its last entry, and a worker
\* is launched only while the button is enabled.
C7_SingleWorker ==
    /\ [](Cardinality({ w \in Workers : Active(w) }) <= 1)
    /\ []((\E w \in Workers : Active(w)) => button = "disabled")
    /\ [][launches' # launches => button = "normal" /\ button' = "disabled"]_vars

\* a second launch is at work after the first has finished
C7_Witness ==
    /\ launches = 2
    /\ \E w \in Workers : worker[w].pc = "enrich"
    /\ button = "disabled"

\* what a log line shows of the queue entry it was written for
LogImage(e) == IF e.txt = "alldone" THEN Entry("complete", "done", 0) ELSE e

LogOfEntries ==
    LET shown == SelectSeq(log, LAMBDA e : e.txt \notin {"exported", "loaded"})
    IN [k \in 1..Len(shown) |-> LogImage(shown[k])]

\* C8: the log holds the processed entries in the order they were posted, the
\* completion line after every entry posted before the marker.
C8_FifoLog ==
    uiPc # "destroyed" => LogOfEntries \o queue = posted

\* completion has been handled after several lines of a run
C8_Witness ==
    /\ uiPc = "idle"
    /\ Len(log) >= 6
    /\ \E k \in 1..Len(log) : log[k].txt = "alldone"
    /\ \E k \in 1..Len(log) : log[k].kind = "error"

\* C9: once the stop flag is set the worker enters no record beyond the one
\* in flight, and it ends by posting "Stopped by user" or the completion
\* marker (a thread that dies of an uncaught exception posts neither).
C9_StopHonoured ==
    stop_event =>
        \A w \in Workers :
            /\ worker[w].pc \in {"select", "enrich", "save", "saveTracks", "post"}
                   => worker[w].idx <= stopIdx
            /\ worker[w].pc # "crashed"

IsPrefix(a, b) == Len(a) <= Len(b) /\ SubSeq(b, 1, Len(a)) = a

\* C10: shutdown requests the stop, waits for the worker at most for the
\* join timeout, disconnects the database and destroys the window, in that
\* order, and is never blocked on the way, whatever the worker does.
C10_ShutdownCompletes ==
    /\ \/ IsPrefix(shutdownLog, <<"stop", "join", "disconnect", "destroy">>)
       \/ IsPrefix(shutdownLog, <<"stop", "disconnect", "destroy">>)
    /\ uiPc \in {"join", "disconnect", "destroy"} => ENABLED ShutdownStep
    /\ uiPc = "destroyed" =>
          /\ stop_event
          /\ shutdownLog[Len(shutdownLog)] = "destroy"
          /\ \E k \in 1..Len(shutdownLog) : shutdownLog[k] = "disconnect"

\* the window is gone while the worker is still in the middle of a record
C10_Witness ==
    /\ uiPc = "destroyed"
    /\ \E w \in Workers : worker[w].pc = "enrich"
    /\ shutdownLog = <<"stop", "join", "disconnect", "destroy">>

\* the step is process_file_wrapper meeting an input error: open() fails, or
\* the file it hands on has an extension load_albums rejects
InputErrorStep ==
    \/ queue' = Append(queue, Entry("error", "readfail", 0))
    \/ launches' = launches + 1 /\ ~worker'[processing_thread'].supported

\* C11: an input error (unreadable file, unsupported extension) starts no
\* worker thread and changes neither the store nor the Process button, and
\* its report reaches the user: error dialogs are raised by the poller only,
\* so a queued read failure must have a poll pending or running.
C11_InputErrorBeforeWork ==
    /\ [][ InputErrorStep =>
             /\ worker' = worker
             /\ processing_thread' = processing_thread
             /\ button' = button
             /\ log' = log
             /\ albums' = albums
             /\ tracklist' = tracklist ]_vars
    /\ []( (\E i \in 1..Len(queue) : queue[i].txt = "readfail") =>
             (pollScheduled \/ uiPc \in {"draining", "checkAlive"}) )

\* the cleaned record is, cell for cell, the (Artist, Title) of a stored row
RowMatches(rec) ==
    \E i \in 1..Len(albums) :
        albums[i].Artist = rec.Artist /\ albums[i].Title = rec.Title

\* C12: a worker that reaches a record whose (Artist, Title) exactly matches
\* an albums row makes no enrichment call, writes nothing to the store and
\* posts a skip message for that record.
C12_SkipExisting ==
    [][ \A w \in Workers :
          (worker[w].pc = "select" /\ worker'[w] # worker[w]
              /\ RowMatches(Rec(w))) =>
             /\ albums' = albums
             /\ tracklist' = tracklist
             /\ worker'[w].pc \in {"check", "end"}
             /\ queue' = Append(queue,
                    Entry("message", "skip", worker[w].idx)) ]_vars

\* n*ceil(log2 n) - n + 1, the logarithm taken from its definition
ClaimedMaximum(n) ==
    n * (CHOOSE L \in 0..n : 2^L >= n /\ (L = 0 \/ 2^(L - 1) < n)) - n + 1

\* C13: the progress-bar maximum of a tournament over n albums is
\* n*ceil(log2 n) - n + 1 (17 for n = 8, 0 for n = 1), and the number of
\* record_choice calls of the tournament never exceeds it
\* (comparisons_done <= total_comparisons in every state).
C13_ProgressBound ==
    /\ TotalComparisons(8) = 17
    /\ TotalComparisons(1) = 0
    /\ comparisons_done <= total_comparisons
    /\ sort_gen.state # "none" =>
          LET n == Len(sort_gen.items) IN
          /\ total_comparisons = ClaimedMaximum(n)
          /\ progress_bar.maximum = ClaimedMaximum(n)
          /\ Len(sort_gen.sent) = comparisons_done
          /\ Len(sort_gen.sent) <= ClaimedMaximum(n)

\* a tournament over four albums has ended after as many choices as the bar
\* has room for
C13_Witness ==
    /\ sort_gen.state = "exhausted"
    /\ Len(sort_gen.items) = 4
    /\ comparisons_done = 5
    /\ comparisons_done = progress_bar.maximum
    /\ sorted_final.kind = "list"

Range(q) == { q[k] : k \in DOMAIN q }

\* a holds every element of b exactly once and nothing else
IsPermutation(a, b) ==
    /\ Len(a) = Len(b)
    /\ \A x \in Range(b) : Cardinality({ k \in DOMAIN a : a[k] = x }) = 1

\* the pairs generator g has offered, each with the chosen album first
Asked(g) ==
    [k \in 1..Len(g.sent) |->
        LET pair == MergeSort(g.items, SubSeq(g.sent, 1, k - 1)).pair
        IN  IF g.sent[k] = "L" THEN pair ELSE <<pair[2], pair[1]>>]

\* the strict total orders on the set S, written best album first, that
\* agree with every choice in asked: the first album of such an order lost
\* to no album of S, and the rest is such an order on what remains
RECURSIVE ConsistentOrders(_, _)
ConsistentOrders(asked, S) ==
    IF S = {} THEN { <<>> }
    ELSE UNION { { <<x>> \o p : p \in ConsistentOrders(asked, S \ {x}) } :
                 x \in { y \in S : ~\E k \in 1..Len(asked) :
                                        asked[k][2] = y /\ asked[k][1] \in S } }

\* C14: a tournament ends after finitely many choices (a pending pair means
\* fewer choices made than the maximum, and every choice adds one) with an
\* ordering that is a permutation of the queried identifiers; if the choices
\* agree with a strict total order, the ordering is that order, preferred
\* album first.
C14_FinalOrdering ==
    /\ [](sort_gen.state = "suspended" =>
             /\ current_match # <<>>
             /\ comparisons_done < total_comparisons)
    /\ [][ (sort_gen.state = "suspended" /\ sort_gen' # sort_gen
               /\ sort_gen'.state # "none") =>
             /\ comparisons_done' = comparisons_done + 1
             /\ sort_gen'.sent = Append(sort_gen.sent, "L")
                  \/ sort_gen'.sent = Append(sort_gen.sent, "R") ]_vars
    /\ []((sort_gen.state = "exhausted" /\ sorted_final.kind = "list") =>
             /\ IsPermutation(sorted_final.items, sort_gen.items)
             /\ \A p \in ConsistentOrders(Asked(sort_gen),
                                          Range(sort_gen.items)) :
                    sorted_final.items = p)

\* five albums have been ordered in reverse of their table order
C14_Witness ==
    /\ sort_gen.state = "exhausted"
    /\ sort_gen.items = <<1, 2, 3, 4, 5>>
    /\ sorted_final = [kind |-> "list", items |-> <<5, 4, 3, 2, 1>>]

RECURSIVE Factorial(_)
Factorial(n) == IF n <= 1 THEN 1 ELSE n * Factorial(n - 1)

\* C15: a tournament over n albums never asks more than ceil(log2(n!))
\* comparisons.
C15_InformationTheoreticMinimum ==
    sort_gen.state # "none" =>
        comparisons_done <= CeilLog2(Factorial(Len(sort_gen.items)))

\* the tournament state reset_ranking_state establishes
RankingStateReset ==
    /\ sort_gen = NoGen
    /\ current_match = <<>>
    /\ comparisons_done = 0
    /\ progress_bar.value = 0
    /\ start_button = "normal"
    /\ save_button = "disabled"

\* C16: when the user switches from the Ranker tab to another tab, the
\* tournament state is reset: no generator, no current pair, comparisons-done
\* 0, progress 0, Start Tournament enabled, Save Results disabled.
C16_SwitchAwayResets ==
    [][ (selected_tab = "ranker" /\ selected_tab' # "ranker") =>
          RankingStateReset' ]_vars

\* C17: after start_ranking_game has warned that no album matches, the tab
\* is idle: no tournament in progress, comparisons-done 0 and Start
\* Tournament enabled.
C17_EmptyResultLeavesIdle ==
    ranker_dialog = "No Albums" =>
        /\ sort_gen = NoGen
        /\ current_match = <<>>
        /\ comparisons_done = 0
        /\ start_button = "normal"

\* the report now selected, as _draw_chart looks it up
SelectedClass == ANALYTICS_CLASSES[analysis_type]

\* a step of the event loop that runs a pending _draw_chart
DrawStep == draw_pending' < draw_pending

\* the drawing of the selected report raises: fetch_data rejects the filter
\* keyword, or the report has no _calculate_statistics to call
DrawRaises ==
    \/ ~AcceptsKeywords(SelectedClass, Kwargs)
    \/ ~HasMethod(SelectedClass, "_calculate_statistics")

\* C18: whenever drawing the selected report raises, after the user selected
\* a report or a filter value, the Analytics tab catches the failure and
\* recomputes the filter option list; no exception leaves the tab's
\* handlers.
C18_DrawFailureFallsBack ==
    [][ (DrawStep /\ DrawRaises) =>
          /\ callback_exc' = "none"
          /\ recomputed'
          /\ filter_value' = AllText ]_vars

\* C19: for every discovered report class and every filter, drawing the
\* report on non-empty data ends with the chart and an insight mapping
\* displayed; a report without a statistics routine of its own shows the
\* default mapping, which holds the row count.
C19_ChartAndInsights ==
    [][ (DrawStep /\ AcceptsKeywords(SelectedClass, Kwargs)) =>
          /\ chart_frame'.chart = analysis_type
          /\ chart_frame'.insights.kind # "none"
          /\ "_calculate_statistics" \notin SelectedClass.methods =>
                /\ chart_frame'.insights.kind = "default"
                /\ chart_frame'.insights.Records \in 1..MaxRows ]_vars

\* the gain the documented rule gives: round(30 * (1 - E))
DocumentedGain(winner_rating, loser_rating) ==
    RoundOf(GainMilli(winner_rating, loser_rating))

\* C20: record_result(winner, loser) applies the documented update with
\* K = 30: with E = 1/(1+10^((loser - winner)/400)) the winner gains
\* round(30*(1-E)) and the loser loses the same amount, so the two ratings
\* move by equal and opposite amounts; two ratings of 1000 become 1015 and
\* 985.
C20_EloUpdate ==
    [][ results' = results + 1 =>
          \E w, l \in DOMAIN rankings :
              /\ w # l
              /\ rankings' =
                    [rankings EXCEPT
                       ![w] = @ + DocumentedGain(rankings[w], rankings[l]),
                       ![l] = @ - DocumentedGain(rankings[w], rankings[l])]
              /\ (rankings[w] = 1000 /\ rankings[l] = 1000) =>
                    (rankings'[w] = 1015 /\ rankings'[l] = 985) ]_vars

\* C21: cell cleaning is idempotent: for every input value v,
\* clean_imported_data(clean_imported_data(v)) = clean_imported_data(v).
C21_CleaningIdempotent ==
    Len(cleaned) >= 2 => cleaned[2] = cleaned[1]

\* the albums whose Release_Date holds a 4-digit year of the decade
InDecade(decade) ==
    { i \in DOMAIN release_dates :
        /\ ExtractYear(release_dates[i]) # NoYear
        /\ (ExtractYear(release_dates[i]) \div 10) * 10
              = DecadeStart(decade) }

\* C22: in every report a decade filter D selects exactly the albums whose
\* Release_Date contains a 4-digit year Y with (Y div 10)*10 = D, wherever
\* the year stands; an album without a 4-digit year is left out of every
\* decade-filtered or decade-grouped result, and the report still produces
\* its result from the remaining albums.
C22_DecadeFilter ==
    fetched.kind # "unset" =>
        /\ fetched.kind = "rows"
        /\ fetched.decade # NoDecade => fetched.rows = InDecade(fetched.decade)
        /\ fetched.report = "DecadeTrends" =>
              \A i \in fetched.rows : ExtractYear(release_dates[i]) # NoYear

\* the import worker is inside save_album: the album row is committed, the
\* track rows are not yet
InsideSaveAlbum == \E w \in Workers : worker[w].pc = "saveTracks"

\* a step of the UI thread that writes to the database
UiWrite ==
    /\ worker' = worker
    /\ albums' # albums \/ idIsPK' # idIsPK \/ tracklist' # tracklist

\* the completion handling runs in this step
CompletionRuns ==
    /\ worker' = worker
    /\ Len(log') > 0
    /\ log' # log
    /\ log'[Len(log')] = Entry("log", "loaded", 0)

\* a worker that may still write: it has not left its loop
MayStillWrite(w) ==
    worker[w].pc \in {"load", "check", "select", "enrich", "save",
                      "saveTracks", "post"}

FailsPartWay(w) ==
    /\ worker[w].pc = "saveTracks"
    /\ worker[w].enriched.malformed
    /\ worker'[w] # worker[w]

\* the album row the save_album call of worker w inserted is in the table
AlbumRowKept(w) ==
    /\ worker[w].album_id \in 1..Len(albums')
    /\ albums'[worker[w].album_id].Artist = Strip(Rec(w).Artist)
    /\ albums'[worker[w].album_id].Title = Rec(w).Title

\* C24: save_album is all-or-nothing: when a call fails part-way (a track
\* row is rejected) the store holds neither the album row nor any track row
\* of that album after the failed call.
C24_SaveAlbumAtomic ==
    [][ \A w \in Workers :
          FailsPartWay(w) =>
              /\ ~AlbumRowKept(w)
              /\ \A k \in 1..Len(tracklist') :
                    tracklist'[k].album_id # worker[w].album_id ]_vars

\* shutdown() has executed self.database.disconnect()
Disconnected == \E k \in 1..Len(shutdownLog) : shutdownLog[k] = "disconnect"

\* C25: after shutdown() has disconnected the database no row is written to
\* the store any more, even when the import worker outlives the bounded
\* join and is still inside its loop.
C25_NoWriteAfterDisconnect ==
    [][ Disconnected => (albums' = albums /\ tracklist' = tracklist) ]_vars

\* a click on one of the two album buttons: record_choice runs
ChoiceStep == \E choice \in Choices : RecordChoice(choice)

\* C26: record_choice changes tournament state only while a pair is
\* pending: once the final ordering has been produced a further call leaves
\* the final ordering unchanged, and a call when no tournament is in
\* progress changes nothing of the tournament state.
C26_ChoiceOnlyWhilePending ==
    [][ (ChoiceStep /\ sort_gen.state # "suspended") =>
          /\ sorted_final' = sorted_final
          /\ sort_gen.state = "none" =>
                UNCHANGED << sort_gen, current_match, comparisons_done,
                             total_comparisons, save_button, start_button,
                             progress_bar >> ]_vars

\* worker w executes save_album's INSERT of the album row
InsertsAlbum(w) == worker[w].pc = "save" /\ worker'[w].pc = "saveTracks"

\* a completion handling has written enriched_albums.csv
RunCompleted == csvFile.exists

\* C27: after import runs that ended with the export and table reload, every
\* albums row has a unique, non-null id, and the track rows of a save_album
\* call carry the id value of the album row that call wrote: each INSERT
\* adds a row whose id is not null and not yet in the table, and the
\* album_id kept for the track rows is that id.
C27_SurrogateIds ==
    [][ \A w \in Workers : (RunCompleted /\ InsertsAlbum(w)) =>
          LET row == albums'[Len(albums')] IN
          /\ row.id # NullId
          /\ \A i \in 1..Len(albums) : albums[i].id # row.id
          /\ worker'[w].album_id = row.id ]_vars

\* the (Artist, Title) of an albums row
ArtistTitle(row) == <<row.Artist, row.Title>>

\* C28: a store in which no two albums rows share the same (Artist, Title)
\* stays so through every sequence of import runs: the worker never persists
\* a row whose (Artist, Title) is already present, so no two rows of the
\* table ever hold the same (Artist, Title).
C28_NoDuplicateAlbum ==
    \A i, j \in 1..Len(albums) :
        i # j => ArtistTitle(albums[i]) # ArtistTitle(albums[j])

\* C29: each artist option other than 'All' that load_filters offers selects
\* at least one album: update_results with that artist and genre 'All'
\* shows every album on which that artist appears, so the grid is not empty.
C29_ArtistOptionSelects ==
    artist_var # BrowserAll =>
        /\ tree = { i \in 1..Len(artist_column) :
                       artist_var \in ArtistsOf(artist_column[i]) }
        /\ tree # {}

\* the keywords the two reports that have statistics apply as filters
FilterKeywords == {"genre", "decade", "artist"}

\* the rows a fetch_data call selects, named by the filter that call applies:
\* a keyword a report does not read, or one with an empty value, filters
\* nothing
DataSet(call) ==
    IF call.type \in FilterKeywords /\ call.value \notin {AllText, EmptyText}
    THEN call
    ELSE NoKeywords

\* C30: the insight text the Analytics tab's Export writes is computed from
\* the same filtered data set as the chart image exported next to it.
C30_ExportUsesChartData ==
    exported.dialog = "Export Complete" =>
        DataSet(exported.txt) = DataSet(exported.png)

====
